---- MODULE Spec2Model ----
(***************************************************************************)
(* Model of shared/python-utilities/sql_utils.py: get_db_connection (the   *)
(* connection acquirer with bounded retries and exponential backoff) and   *)
(* execute_query (the query executor), run by a set of calling threads     *)
(* against a PostgreSQL driver whose outcomes are the environment.         *)
(*                                                                         *)
(* Strings are sequences of tokens; a diagnostic line is a record of its   *)
(* tag, its fixed message, its numbers and the text it embeds.             *)
(***************************************************************************)
EXTENDS Integers, Sequences, FiniteSets, TLC

\* ------------------------------------------------------------ constants
DB_CONNECT_TIMEOUT == 120
MAX_RETRIES == 3
RETRY_DELAY_BASE == 5

\* ------------------------------------------------------------ bounds
\* calling threads
NumCallers == 2
\* the database fails operationally 0..MaxFail times in a row
MaxFail == 5
\* query parameters of a configured connection string
MaxParams == 2
\* rows a query returns
MaxRows == 2
\* retry_count a direct caller of get_db_connection may pass
MaxRetryArg == 4

Callers == 1..NumCallers

Min(a, b) == IF a <= b THEN a ELSE b

RECURSIVE Pow2(_)
Pow2(n) == IF n = 0 THEN 1 ELSE 2 * Pow2(n - 1)

\* ------------------------------------------------------------ strings
\* s contains the token t ('t in s' for an atomic token)
Contains(s, t) == \E i \in 1..Len(s) : s[i] = t

Count(s, t) == Cardinality({i \in 1..Len(s) : s[i] = t})

\* sub occurs in s as a contiguous run of tokens
IsSubstring(sub, s) ==
    \E i \in 0..(Len(s) - Len(sub)) : SubSeq(s, i + 1, i + Len(sub)) = sub

LastIndexOf(s, t) ==
    IF Contains(s, t)
    THEN CHOOSE i \in 1..Len(s) : s[i] = t /\ \A j \in (i + 1)..Len(s) : s[j] # t
    ELSE 0

\* db_url.split('@')[-1] : what follows the last '@'
SplitLast(s, t) == SubSeq(s, LastIndexOf(s, t) + 1, Len(s))

\* what precedes the last '@' of a connection string: its credential part
BeforeLast(s, t) == SubSeq(s, 1, LastIndexOf(s, t) - 1)

\* ------------------------------------------------------------ configuration
ParamKeys == {"sslmode=", "application_name="}

ParamLists == UNION {[1..k -> ParamKeys] : k \in 0..MaxParams}

RECURSIVE Render(_, _)
\* "?k=v&k=v..." for the parameter list ps, starting at its i-th parameter
Render(ps, i) ==
    IF i > Len(ps) THEN <<>>
    ELSE <<IF i = 1 THEN "?" ELSE "&", ps[i], "v">> \o Render(ps, i + 1)

\* the part of a connection string before its query parameters
Scheme == "postgresql://"

Prefixes ==
    { <<"host/db">>,
      <<"user", ":", "pw", "@", "host/db">>,
      <<Scheme, "user", ":", "pw", "@", "host/db">>,
      <<Scheme, "user", ":", "p", "@", "w", "@", "host/db">> }

Urls == {p \o Render(ps, 1) : p \in Prefixes, ps \in ParamLists}

\* config.DATABASE_URL: None (present = FALSE), '' or a connection string
Configs ==
    {[present |-> FALSE, DATABASE_URL |-> <<>>]}
    \cup {[present |-> TRUE, DATABASE_URL |-> u] : u \in Urls \cup {<<>>}}

VARIABLES
    config,     \* the configuration collaborator (read-only)
    pc,         \* each caller's position
    kind,       \* the function each caller invoked
    arg,        \* retry_count the caller passed to get_db_connection
    dbFails,    \* operational failures the database produces in a row, per caller
    dbAfter,    \* what the database does after them: "ok" or "ProgrammingError"
    dbEcho,     \* whether the driver's error text quotes the connection string
    dbRows,     \* rows the caller's query selects
    stack,      \* retry_count of each active get_db_connection frame
    db_url,     \* the local db_url of the innermost frame
    ret,        \* value travelling up the get_db_connection frames
    conn,       \* execute_query's local conn (0 = None)
    pending,    \* execute_query's return value while finally runs
    result,     \* what the caller got
    trace,      \* driver and sleep calls each caller made, in order
    out,        \* diagnostic lines each caller printed
    main,       \* what the standalone run printed and how it ended
    conns       \* every connection the driver opened

vars == <<config, pc, kind, arg, dbFails, dbAfter, dbEcho, dbRows, stack, db_url,
          ret, conn, pending, result, trace, out, main, conns>>

\* ------------------------------------------------------------ values
NoneVal == [kind |-> "None", conn |-> 0, rows |-> <<>>]
ConnVal(id) == [kind |-> "conn", conn |-> id, rows |-> <<>>]
RowsVal(rs) == [kind |-> "rows", conn |-> 0, rows |-> rs]
Raised == [kind |-> "raise", conn |-> 0, rows |-> <<>>]
Pending == [kind |-> "pending", conn |-> 0, rows |-> <<>>]

Line(tag, msg, nums, text) == [tag |-> tag, msg |-> msg, nums |-> nums, text |-> text]
Tag == "[sql_utils]"

Event(op, dsn, n, res) == [op |-> op, dsn |-> dsn, n |-> n, res |-> res]

\* mutant: only None counts as unset, '' passes
IsSetNotNone(cfg) == cfg.present

\* ------------------------------------------------------------ get_db_connection
\* 'if db_url:' : None and '' are falsy
IsSet(cfg) == cfg.present /\ Len(cfg.DATABASE_URL) > 0

\* the masked target of the attempt line
SafeUrl(url) ==
    IF Contains(url, "@") THEN SplitLast(url, "@")
    ELSE <<"URL set but format unclear">>

NeedsSslmode(url) == ~Contains(url, "sslmode=")

\* mutant: sslmode=require is appended to every connection string
WithSslmodeAlways(url) ==
    url \o <<IF Contains(url, "?") THEN "&" ELSE "?", "sslmode=", "require">>

\* the connection string handed to psycopg2.connect
WithSslmode(url) ==
    IF NeedsSslmode(url)
    THEN url \o <<IF Contains(url, "?") THEN "&" ELSE "?", "sslmode=", "require">>
    ELSE url

\* mutant: the first except clause takes every error
HandlerAny(err) == "OperationalError"

\* the except clause that handles a connect error
Handler(err) == IF err = "OperationalError" THEN "OperationalError" ELSE "Exception"

\* mutant: one retry too many
ShouldRetryInclusive(retry_count) == retry_count <= MAX_RETRIES

ShouldRetry(retry_count) == retry_count < MAX_RETRIES

\* mutant: linear backoff
DelayLinear(retry_count) == RETRY_DELAY_BASE * (retry_count + 1)

Delay(retry_count) == RETRY_DELAY_BASE * Pow2(retry_count)

\* mutant: the last operational error is raised again
OnExhaustedRaise == Raised

\* what get_db_connection hands back once the retry budget is used up
OnExhausted == NoneVal

\* the user name of a connection string: the first credential token
UserOf(dsn) ==
    LET c == BeforeLast(dsn, "@")
        i == IF Len(c) > 0 /\ c[1] = Scheme THEN 2 ELSE 1
    IN  IF Len(c) >= i THEN <<c[i]>> ELSE <<>>

\* str(e) of the driver's error for a connect call given dsn
ErrorText(err, dsn, echo) ==
    IF ~echo THEN <<"could not connect to server">>
    ELSE IF err = "OperationalError"
         THEN <<"password authentication failed for user">> \o UserOf(dsn)
         ELSE <<"invalid dsn: invalid connection option">> \o dsn

\* connect calls caller c has made
Attempts(c) == Count([i \in 1..Len(trace[c]) |-> trace[c][i].op], "connect")

\* what the database does with caller c's next connect call
NextOutcome(c) == IF Attempts(c) < dbFails[c] THEN "OperationalError" ELSE dbAfter[c]

Top(c) == stack[c][Len(stack[c])]

\* lines 31-49: read the configuration, log the masked target, ensure sslmode
GdcEnter(c) ==
    /\ pc[c] = "gdc_enter"
    /\ IF IsSet(config)
       THEN /\ out' = [out EXCEPT ![c] = @ \o
                   <<Line(Tag, "Attempting DB connection to: ...@", <<>>,
                          SafeUrl(config.DATABASE_URL)),
                     Line(Tag, "Connect timeout: {}s", <<DB_CONNECT_TIMEOUT>>, <<>>)>>
                   \o (IF NeedsSslmode(config.DATABASE_URL)
                       THEN <<Line(Tag, "Added sslmode=require to connection string",
                                   <<>>, <<>>)>>
                       ELSE <<>>)]
            /\ db_url' = [db_url EXCEPT ![c] = WithSslmode(config.DATABASE_URL)]
            /\ pc' = [pc EXCEPT ![c] = "gdc_connect"]
            /\ ret' = ret
       ELSE /\ out' = [out EXCEPT ![c] = Append(@,
                   Line(Tag, "ERROR: DATABASE_URL is not set!", <<>>, <<>>))]
            /\ ret' = [ret EXCEPT ![c] = NoneVal]
            /\ pc' = [pc EXCEPT ![c] = "gdc_return"]
            /\ db_url' = db_url
    /\ UNCHANGED <<config, main, kind, arg, dbFails, dbAfter, dbEcho,
                   dbRows, stack, conn,
                   pending, result, trace, conns>>

\* mutant: one module-level connection is handed to every caller
SharedConnId == IF Len(conns) = 0 THEN Len(conns) + 1 ELSE 1

\* psycopg2.connect returns a connection of its own
NewConnId == Len(conns) + 1

\* lines 51-53: psycopg2.connect succeeds
ConnectOk(c) ==
    /\ pc[c] = "gdc_connect"
    /\ NextOutcome(c) = "ok"
    /\ conns' = Append(conns, [owner |-> c, open |-> TRUE, closes |-> 0,
                                txn |-> "idle"])
    /\ trace' = [trace EXCEPT ![c] =
                    Append(@, Event("connect", db_url[c], DB_CONNECT_TIMEOUT, "ok"))]
    /\ out' = [out EXCEPT ![c] = Append(@,
                   Line(Tag, "Database connection established successfully", <<>>, <<>>))]
    /\ ret' = [ret EXCEPT ![c] = ConnVal(NewConnId)]
    /\ pc' = [pc EXCEPT ![c] = "gdc_return"]
    /\ UNCHANGED <<config, main, kind, arg, dbFails, dbAfter, dbEcho,
                   dbRows, stack, db_url,
                   conn, pending, result>>

\* lines 51, 54-66: psycopg2.connect raises an error the first except clause takes
ConnectOperationalError(c) ==
    /\ pc[c] = "gdc_connect"
    /\ NextOutcome(c) # "ok"
    /\ Handler(NextOutcome(c)) = "OperationalError"
    /\ trace' = [trace EXCEPT ![c] =
                    Append(@, Event("connect", db_url[c], DB_CONNECT_TIMEOUT,
                                    NextOutcome(c)))]
    /\ IF ShouldRetry(Top(c))
       THEN /\ out' = [out EXCEPT ![c] = @ \o
                   <<Line(Tag, "ERROR: Could not connect to the database: {e}", <<>>,
                          ErrorText(NextOutcome(c), db_url[c], dbEcho[c])),
                     Line(Tag, "Retrying connection in {}s (attempt {}/{})...",
                          <<Delay(Top(c)), Top(c) + 1, MAX_RETRIES>>, <<>>)>>]
            /\ pc' = [pc EXCEPT ![c] = "gdc_sleep"]
            /\ ret' = ret
       ELSE /\ out' = [out EXCEPT ![c] = @ \o
                   <<Line(Tag, "ERROR: Could not connect to the database: {e}", <<>>,
                          ErrorText(NextOutcome(c), db_url[c], dbEcho[c])),
                     Line(Tag, "All {} connection attempts failed",
                          <<MAX_RETRIES>>, <<>>)>>]
            /\ ret' = [ret EXCEPT ![c] = OnExhausted]
            /\ pc' = [pc EXCEPT ![c] = "gdc_return"]
    /\ UNCHANGED <<config, main, kind, arg, dbFails, dbAfter, dbEcho,
                   dbRows, stack, db_url,
                   conn, pending, result, conns>>

\* lines 51, 67-70: psycopg2.connect raises any other error
ConnectUnexpectedError(c) ==
    /\ pc[c] = "gdc_connect"
    /\ NextOutcome(c) # "ok"
    /\ Handler(NextOutcome(c)) = "Exception"
    /\ trace' = [trace EXCEPT ![c] =
                    Append(@, Event("connect", db_url[c], DB_CONNECT_TIMEOUT,
                                    NextOutcome(c)))]
    /\ out' = [out EXCEPT ![c] = Append(@,
                   Line(Tag, "ERROR: Unexpected error connecting to database: {e}", <<>>,
                        ErrorText(NextOutcome(c), db_url[c], dbEcho[c])))]
    /\ ret' = [ret EXCEPT ![c] = NoneVal]
    /\ pc' = [pc EXCEPT ![c] = "gdc_return"]
    /\ UNCHANGED <<config, main, kind, arg, dbFails, dbAfter, dbEcho,
                   dbRows, stack, db_url,
                   conn, pending, result, conns>>

\* lines 62-63: time.sleep(delay), then the recursive call with retry_count + 1
Sleep(c) ==
    /\ pc[c] = "gdc_sleep"
    /\ trace' = [trace EXCEPT ![c] = Append(@, Event("sleep", <<>>, Delay(Top(c)), "ok"))]
    /\ stack' = [stack EXCEPT ![c] = Append(@, Top(c) + 1)]
    /\ pc' = [pc EXCEPT ![c] = "gdc_enter"]
    /\ UNCHANGED <<config, main, kind, arg, dbFails, dbAfter, dbEcho,
                   dbRows, db_url, ret,
                   conn, pending, result, out, conns>>

\* mutant: the recursive call's value is dropped ('return' is missing)
PropagateNothing(v) == NoneVal

\* line 63: 'return get_db_connection(retry_count + 1)' hands the inner
\* frame's value up unchanged
Propagate(v) == v

\* a get_db_connection frame returns: to the frame that retried (line 63), to
\* execute_query (line 87) or to the direct caller
GdcReturn(c) ==
    /\ pc[c] = "gdc_return"
    /\ stack' = [stack EXCEPT ![c] = SubSeq(@, 1, Len(@) - 1)]
    /\ IF Len(stack[c]) > 1
       THEN /\ ret' = [ret EXCEPT ![c] = Propagate(@)]
            /\ UNCHANGED <<pc, conn, result>>
       ELSE IF kind[c] = "get_db_connection"
            THEN /\ result' = [result EXCEPT ![c] = ret[c]]
                 /\ pc' = [pc EXCEPT ![c] = "done"]
                 /\ UNCHANGED <<conn, ret>>
            ELSE /\ conn' = [conn EXCEPT ![c] = ret[c].conn]
                 /\ pc' = [pc EXCEPT ![c] = IF ret[c].kind = "raise" THEN "eq_except"
                                            ELSE "eq_check"]
                 /\ UNCHANGED <<result, ret>>
    /\ UNCHANGED <<config, main, kind, arg, dbFails, dbAfter, dbEcho,
                   dbRows, db_url,
                   pending, trace, out, conns>>

\* ------------------------------------------------------------ execute_query
\* mutant: the test for None is missing
IsConnAlways(cn) == TRUE

\* 'if conn is None' and 'if conn:' : a connection object is truthy
IsConn(cn) == cn # 0

\* mutant: the finally clause closes nothing
ShouldCloseNever(cn) == FALSE

\* the finally clause closes what the call acquired
ShouldClose(cn) == IsConn(cn)

\* cur.fetchall() with RealDictCursor: one mapping per row, keyed by column name
Rows(n) == [i \in 1..n |-> [version |-> i]]

\* the caller invokes execute_query (lines 85-87), directly or from the
\* standalone run (lines 104-107), or get_db_connection (line 21)
Call(c) ==
    /\ pc[c] = "start"
    /\ stack' = [stack EXCEPT ![c] = <<arg[c]>>]
    /\ conn' = [conn EXCEPT ![c] = 0]
    /\ pc' = [pc EXCEPT ![c] = "gdc_enter"]
    /\ main' = [main EXCEPT ![c].out =
                   IF kind[c] = "__main__"
                   THEN Append(@, Line("", "Testing database connection...", <<>>, <<>>))
                   ELSE @]
    /\ UNCHANGED <<config, kind, arg, dbFails, dbAfter, dbEcho, dbRows, db_url, ret,
                   pending, result, trace, out, conns>>

\* lines 88-89
EqCheck(c) ==
    /\ pc[c] = "eq_check"
    /\ IF IsConn(conn[c])
       THEN /\ pc' = [pc EXCEPT ![c] = "eq_cursor"]
            /\ pending' = pending
       ELSE /\ pending' = [pending EXCEPT ![c] = NoneVal]
            /\ pc' = [pc EXCEPT ![c] = "eq_finally"]
    /\ UNCHANGED <<config, main, kind, arg, dbFails, dbAfter, dbEcho,
                   dbRows, stack, db_url,
                   ret, conn, result, trace, out, conns>>

\* line 91: conn.cursor(cursor_factory=RealDictCursor)
OpenCursor(c) ==
    /\ pc[c] = "eq_cursor"
    /\ \E ok \in BOOLEAN :
        /\ trace' = [trace EXCEPT ![c] =
               Append(@, Event("cursor", <<>>, conn[c], IF ok THEN "ok" ELSE "error"))]
        /\ pc' = [pc EXCEPT ![c] = IF ok THEN "eq_execute" ELSE "eq_except"]
    /\ UNCHANGED <<config, main, kind, arg, dbFails, dbAfter, dbEcho,
                   dbRows, stack, db_url,
                   ret, conn, pending, result, out, conns>>

\* mutant: the cursor is opened without a with block
WithExitNothing(cn) == <<>>

\* 'with conn.cursor(...) as cur': an error inside the block closes the cursor
\* on its way out
WithExit(cn) == <<Event("cursor.close", <<>>, cn, "ok")>>

\* line 92: cur.execute(query, params), which begins a transaction on the
\* connection; an error leaves the with block, which closes the cursor
Execute(c) ==
    /\ pc[c] = "eq_execute"
    /\ \E ok \in BOOLEAN :
        /\ trace' = [trace EXCEPT ![c] =
               IF ok THEN Append(@, Event("execute", <<>>, conn[c], "ok"))
               ELSE Append(@, Event("execute", <<>>, conn[c], "error"))
                    \o WithExit(conn[c])]
        /\ conns' = [conns EXCEPT ![conn[c]].txn = IF ok THEN "open" ELSE "aborted"]
        /\ pc' = [pc EXCEPT ![c] = IF ok THEN "eq_fetch" ELSE "eq_except"]
    /\ UNCHANGED <<config, main, kind, arg, dbFails, dbAfter, dbEcho,
                   dbRows, stack, db_url,
                   ret, conn, pending, result, out>>

\* lines 93-94: results = cur.fetchall(); return results
Fetchall(c) ==
    /\ pc[c] = "eq_fetch"
    /\ \E ok \in BOOLEAN :
        /\ trace' = [trace EXCEPT ![c] =
               IF ok THEN Append(@, Event("fetchall", <<>>, conn[c], "ok"))
               ELSE Append(@, Event("fetchall", <<>>, conn[c], "error"))
                    \o WithExit(conn[c])]
        /\ pending' = [pending EXCEPT ![c] = IF ok THEN RowsVal(Rows(dbRows[c])) ELSE @]
        /\ pc' = [pc EXCEPT ![c] = IF ok THEN "eq_exit" ELSE "eq_except"]
    /\ UNCHANGED <<config, main, kind, arg, dbFails, dbAfter, dbEcho,
                   dbRows, stack, db_url,
                   ret, conn, result, out, conns>>

\* line 91: the with block is left by the return; closing the cursor may fail
CursorExit(c) ==
    /\ pc[c] = "eq_exit"
    /\ \E ok \in BOOLEAN :
        /\ trace' = [trace EXCEPT ![c] =
               Append(@, Event("cursor.close", <<>>, conn[c],
                               IF ok THEN "ok" ELSE "error"))]
        /\ pc' = [pc EXCEPT ![c] = IF ok THEN "eq_finally" ELSE "eq_except"]
    /\ UNCHANGED <<config, main, kind, arg, dbFails, dbAfter, dbEcho,
                   dbRows, stack, db_url,
                   ret, conn, pending, result, out, conns>>

\* lines 95-97: except Exception: print, return None
Except(c) ==
    /\ pc[c] = "eq_except"
    /\ out' = [out EXCEPT ![c] = Append(@,
                   Line("", "Error executing query: {e}", <<>>, <<"query failed">>))]
    /\ pending' = [pending EXCEPT ![c] = NoneVal]
    /\ pc' = [pc EXCEPT ![c] = "eq_finally"]
    /\ UNCHANGED <<config, main, kind, arg, dbFails, dbAfter, dbEcho,
                   dbRows, stack, db_url,
                   ret, conn, result, trace, conns>>

\* mutant: the work is committed before the connection is closed
AtCloseCommit(txn) == IF txn = "open" THEN "committed" ELSE txn

\* line 100: conn.close() with no commit before it: a transaction the query
\* began is discarded
AtClose(txn) == IF txn = "idle" THEN "idle" ELSE "rolled back"

\* lines 98-100: finally: if conn: conn.close(); an error of close() is not
\* handled and replaces the pending return
Finally(c) ==
    /\ pc[c] = "eq_finally"
    /\ IF ShouldClose(conn[c])
       THEN \E ok \in BOOLEAN :
            /\ conns' = [conns EXCEPT ![conn[c]] =
                            [@ EXCEPT !.open = FALSE, !.closes = @ + 1,
                                      !.txn = AtClose(@)]]
            /\ trace' = [trace EXCEPT ![c] =
                   Append(@, Event("close", <<>>, conn[c], IF ok THEN "ok" ELSE "error"))]
            /\ result' = [result EXCEPT ![c] = IF ok THEN pending[c] ELSE Raised]
       ELSE /\ result' = [result EXCEPT ![c] = pending[c]]
            /\ UNCHANGED <<trace, conns>>
    /\ pc' = [pc EXCEPT ![c] = IF kind[c] = "__main__" THEN "main_report" ELSE "done"]
    /\ UNCHANGED <<config, main, kind, arg, dbFails, dbAfter, dbEcho,
                   dbRows, stack, db_url,
                   ret, conn, pending, out>>

\* ------------------------------------------------------------ __main__
\* 'if version:' : None and [] are falsy
Truthy(v) == v.kind = "rows" /\ Len(v.rows) > 0

\* the subscript 0 of 'version[0][0]'
IndexKey == [type |-> "int", name |-> ""]

\* row[key] of a RealDictCursor row: a mapping whose keys are the column names
HasKey(row, key) == key.type = "str" /\ key.name \in DOMAIN row

\* lines 107-113: the standalone run reports the outcome of its query; an
\* exception of execute_query or of the subscripts ends the run
MainReport(c) ==
    /\ pc[c] = "main_report"
    /\ main' = [main EXCEPT ![c] =
           IF result[c].kind = "raise"
           THEN [@ EXCEPT !.exit = "uncaught"]
           ELSE IF Truthy(result[c])
           THEN IF HasKey(result[c].rows[1], IndexKey)
                THEN [out |-> @.out \o
                         <<Line("", "Successfully connected to PostgreSQL.", <<>>, <<>>),
                           Line("", "Database version:", <<>>, <<>>)>>,
                      exit |-> "ok"]
                ELSE [out |-> Append(@.out,
                          Line("", "Successfully connected to PostgreSQL.", <<>>, <<>>)),
                      exit |-> "uncaught"]
           ELSE [out |-> Append(@.out,
                     Line("", "Failed to connect or execute query.", <<>>, <<>>)),
                 exit |-> "ok"]]
    /\ pc' = [pc EXCEPT ![c] = "done"]
    /\ UNCHANGED <<config, kind, arg, dbFails, dbAfter, dbEcho, dbRows, stack, db_url,
                   ret, conn, pending, result, trace, out, conns>>

\* ------------------------------------------------------------ specification
InitLocals ==
    /\ stack = [c \in Callers |-> <<>>]
    /\ db_url = [c \in Callers |-> <<>>]
    /\ ret = [c \in Callers |-> Pending]
    /\ conn = [c \in Callers |-> 0]
    /\ pending = [c \in Callers |-> Pending]
    /\ result = [c \in Callers |-> Pending]
    /\ trace = [c \in Callers |-> <<>>]
    /\ out = [c \in Callers |-> <<>>]
    /\ main = [c \in Callers |-> [out |-> <<>>, exit |-> "running"]]
    /\ conns = <<>>

\* the calls a caller may make: execute_query(q) for a query q selecting some
\* rows, the standalone run of the module, or get_db_connection(retry_count)
Calls ==
    {[kind |-> k, arg |-> 0, rows |-> n] :
        k \in {"execute_query", "__main__"}, n \in 0..MaxRows}
    \cup {[kind |-> "get_db_connection", arg |-> a, rows |-> 0] : a \in 0..MaxRetryArg}

\* one call, by the first caller, of either function, under any configuration
\* and any behaviour of the database; the other callers make no call
Init ==
    /\ config \in Configs
    /\ \E call \in Calls, f \in 0..MaxFail, after \in {"ok", "ProgrammingError"},
          echo \in BOOLEAN :
        /\ pc = [c \in Callers |-> IF c = 1 THEN "start" ELSE "idle"]
        /\ kind = [c \in Callers |-> IF c = 1 THEN call.kind ELSE "none"]
        /\ arg = [c \in Callers |-> IF c = 1 THEN call.arg ELSE 0]
        /\ dbFails = [c \in Callers |-> IF c = 1 THEN f ELSE 0]
        /\ dbAfter = [c \in Callers |-> IF c = 1 THEN after ELSE "ok"]
        /\ dbEcho = [c \in Callers |-> IF c = 1 THEN echo ELSE FALSE]
        /\ dbRows = [c \in Callers |-> IF c = 1 THEN call.rows ELSE 0]
    /\ InitLocals

Step(c) ==
    \/ Call(c)
    \/ GdcEnter(c)
    \/ ConnectOk(c)
    \/ ConnectOperationalError(c)
    \/ ConnectUnexpectedError(c)
    \/ Sleep(c)
    \/ GdcReturn(c)
    \/ EqCheck(c)
    \/ OpenCursor(c)
    \/ Execute(c)
    \/ Fetchall(c)
    \/ CursorExit(c)
    \/ Except(c)
    \/ Finally(c)
    \/ MainReport(c)

Next == \E c \in Callers : Step(c)

Spec == Init /\ [][Next]_vars

\* a calling thread that can take a step of its call takes it in the end: the
\* code is synchronous and waits for nothing but the driver and time.sleep
FairSpec == Spec /\ \A c \in Callers : WF_vars(Step(c))

\* every caller runs execute_query at once (the first one directly or as the
\* standalone run), each against a database that connects at once, or fails
\* once operationally and then unexpectedly
ConcConfigs ==
    {[present |-> FALSE, DATABASE_URL |-> <<>>],
     [present |-> TRUE, DATABASE_URL |-> <<Scheme, "user", ":", "pw", "@", "host/db">>]}

ConcInit ==
    /\ config \in ConcConfigs
    /\ pc = [c \in Callers |-> "start"]
    /\ \E k \in {"execute_query", "__main__"} :
           kind = [c \in Callers |-> IF c = 1 THEN k ELSE "execute_query"]
    /\ arg = [c \in Callers |-> 0]
    /\ dbFails \in [Callers -> 0..1]
    /\ dbAfter = [c \in Callers |-> IF dbFails[c] = 0 THEN "ok" ELSE "ProgrammingError"]
    /\ dbEcho = [c \in Callers |-> FALSE]
    /\ dbRows = [c \in Callers |-> 1]
    /\ InitLocals

ConcSpec == ConcInit /\ [][Next]_vars

\* ------------------------------------------------------------ properties
IsConnect(e) == e.op = "connect"
IsSleep(e) == e.op = "sleep"
IsAcquire(e) == e.op \in {"connect", "sleep"}

\* the connect and sleep calls of caller c, in order
Acquisition(c) == SelectSeq(trace[c], IsAcquire)
Connects(c) == SelectSeq(trace[c], IsConnect)
Sleeps(c) == SelectSeq(trace[c], IsSleep)

\* close() calls caller c made on connection id
Closes(c, id) == Cardinality({i \in 1..Len(trace[c]) :
                                 trace[c][i].op = "close" /\ trace[c][i].n = id})

InGdc(c) == pc[c] \in {"gdc_enter", "gdc_connect", "gdc_sleep", "gdc_return"}
\* get_db_connection has returned to the caller's code
GdcFinished(c) == pc[c] \notin {"idle", "start"} /\ ~InGdc(c)
\* the caller's call of get_db_connection or execute_query has returned or raised
Done(c) == pc[c] \in {"done", "main_report"}
IsQuery(c) == kind[c] \in {"execute_query", "__main__"}
\* config.DATABASE_URL is missing (None) or empty
Unconfigured == ~config.present \/ config.DATABASE_URL = <<>>

\* C1: an execute_query call that obtained a connection has called close() on it
\* exactly once when it ends, on every exit path, and not before
C1_ClosedExactlyOnce ==
    \A c \in Callers :
        (IsQuery(c) /\ GdcFinished(c) /\ ret[c].kind = "conn") =>
            /\ conn[c] = ret[c].conn
            /\ Closes(c, conn[c]) = conns[conn[c]].closes
            /\ Done(c) => Closes(c, conn[c]) = 1
            /\ ~Done(c) => Closes(c, conn[c]) = 0

C1_Witness ==
    \E c \in Callers :
        /\ IsQuery(c) /\ Done(c) /\ conn[c] # 0
        /\ \E i \in 1..Len(trace[c]) :
               trace[c][i].op = "fetchall" /\ trace[c][i].res = "error"
        /\ Closes(c, conn[c]) = 1

\* the calls get_db_connection(0) with a connection string configured whose
\* connect attempts fail only with operational errors
OperationalOnly(c) == arg[c] = 0 /\ ~Unconfigured /\ dbAfter[c] = "ok" /\ GdcFinished(c)

\* C2 as stated: the number of connect attempts is min(f, MAX_RETRIES + 1)
C2_Original ==
    \A c \in Callers :
        OperationalOnly(c) => Len(Connects(c)) = Min(dbFails[c], MAX_RETRIES + 1)

\* C2 amended: with a connection string configured, the number of connect
\* attempts is min(f + 1, MAX_RETRIES + 1): the f failures and the attempt that
\* succeeds, capped by the budget
C2_Attempts ==
    \A c \in Callers :
        OperationalOnly(c) => Len(Connects(c)) = Min(dbFails[c] + 1, MAX_RETRIES + 1)

C2_Witness ==
    \E c \in Callers :
        /\ OperationalOnly(c) /\ dbFails[c] = 2 /\ Len(Connects(c)) = 3
        /\ Connects(c)[3].res = "ok"

\* C3: in a call get_db_connection(0), connect attempts and sleeps alternate,
\* starting with attempt 0; the sleep before attempt k lasts
\* RETRY_DELAY_BASE * 2^(k-1) and follows the operational failure of attempt
\* k-1; no sleep follows the last attempt, so a call that made an attempt made
\* one sleep fewer than attempts
C3_Backoff ==
    \A c \in Callers :
        arg[c] = 0 =>
            LET a == Acquisition(c) IN
            /\ \A i \in 1..Len(a) : (i % 2 = 1) <=> IsConnect(a[i])
            /\ \A i \in 1..Len(a) :
                   IsSleep(a[i]) =>
                       /\ a[i].n = RETRY_DELAY_BASE * Pow2((i \div 2) - 1)
                       /\ a[i - 1].res = "OperationalError"
            /\ \A i \in 1..Len(Sleeps(c)) : Sleeps(c)[i].n = <<5, 10, 20>>[i]
            /\ pc[c] = "gdc_connect" => Len(a) % 2 = 0
            /\ pc[c] = "gdc_sleep" => Len(a) % 2 = 1
            /\ (GdcFinished(c) /\ Len(a) > 0) =>
                   /\ IsConnect(a[Len(a)])
                   /\ Len(Sleeps(c)) = Len(Connects(c)) - 1

C3_Witness ==
    \E c \in Callers :
        /\ arg[c] = 0 /\ GdcFinished(c)
        /\ Len(Connects(c)) = 4 /\ Len(Sleeps(c)) = 3
        /\ Sleeps(c)[3].n = 20

\* C4: with DATABASE_URL missing or empty, get_db_connection returns None
\* without a connect call, a sleep or a retry, whatever retry_count it is given
C4_Unset ==
    \A c \in Callers :
        Unconfigured =>
            /\ Len(Acquisition(c)) = 0
            /\ Len(stack[c]) <= 1
            /\ pc[c] \notin {"gdc_connect", "gdc_sleep"}
            /\ pc[c] = "gdc_return" => ret[c] = NoneVal
            /\ GdcFinished(c) => ret[c] = NoneVal /\ conn[c] = 0
            /\ (Done(c) /\ ~IsQuery(c)) => result[c] = NoneVal

C4_Witness ==
    \E c \in Callers :
        /\ config.present /\ config.DATABASE_URL = <<>>
        /\ kind[c] = "get_db_connection" /\ arg[c] = 2
        /\ Done(c) /\ result[c] = NoneVal

\* every connect attempt of the call get_db_connection(0) fails operationally
AlwaysFails(c) == arg[c] = 0 /\ ~Unconfigured /\ dbFails[c] > MAX_RETRIES

\* C5: when every attempt fails operationally, get_db_connection(0) returns
\* None once the budget is used up: each frame of the retry chain returns None
\* and none raises
C5_Exhausted ==
    \A c \in Callers :
        AlwaysFails(c) =>
            /\ pc[c] = "gdc_return" =>
                   /\ ret[c] = NoneVal
                   /\ Len(Connects(c)) = MAX_RETRIES + 1
            /\ GdcFinished(c) =>
                   /\ ret[c] = NoneVal
                   /\ Len(Connects(c)) = MAX_RETRIES + 1
            /\ (Done(c) /\ ~IsQuery(c)) => result[c] = NoneVal
            /\ pc[c] # "eq_except"

C5_Witness ==
    \E c \in Callers :
        /\ AlwaysFails(c) /\ pc[c] = "gdc_return"
        /\ Len(stack[c]) = 2 /\ ret[c] = NoneVal

\* C6: a connect attempt that fails with a non-operational error is the last
\* thing the call does to acquire: no sleep and no connect attempt follow it,
\* and get_db_connection returns None
C6_NoRetryOnUnexpected ==
    \A c \in Callers :
        LET a == Acquisition(c) IN
        \A i \in 1..Len(a) :
            (IsConnect(a[i]) /\ a[i].res \notin {"ok", "OperationalError"}) =>
                /\ i = Len(a)
                /\ pc[c] \notin {"gdc_enter", "gdc_connect", "gdc_sleep"}
                /\ ret[c] = NoneVal
                /\ (Done(c) /\ ~IsQuery(c)) => result[c] = NoneVal
                /\ (GdcFinished(c) /\ IsQuery(c)) => conn[c] = 0

C6_Witness ==
    \E c \in Callers :
        /\ Len(Connects(c)) = 3
        /\ Connects(c)[3].res = "ProgrammingError"
        /\ Len(Sleeps(c)) = 2
        /\ Done(c) /\ result[c] = NoneVal

\* a driver call of caller c's execute_query failed
QueryStepFailed(c) ==
    \E i \in 1..Len(trace[c]) :
        /\ trace[c][i].op \in {"cursor", "execute", "fetchall", "cursor.close", "close"}
        /\ trace[c][i].res = "error"

\* C7 as stated: execute_query raises nothing; after a failure at any step,
\* closing the connection included, it returns None
C7_NeverRaises ==
    \A c \in Callers :
        (IsQuery(c) /\ Done(c)) =>
            /\ result[c].kind # "raise"
            /\ (QueryStepFailed(c) \/ conn[c] = 0) => result[c] = NoneVal

\* connections psycopg2.connect opened for caller c
Owned(c) == {id \in 1..Len(conns) : conns[id].owner = c}

\* C8: under any interleaving of execute_query calls, a call opens at most one
\* connection (one when acquisition succeeds) and uses no other; an open
\* connection is held by the one call that opened it, which is still running;
\* a finished call has closed its connection, once
C8_OneConnectionPerCall ==
    /\ \A c \in Callers :
        /\ Cardinality(Owned(c)) <= 1
        /\ (GdcFinished(c) /\ ret[c].kind = "conn") => Owned(c) = {conn[c]}
        /\ (GdcFinished(c) /\ ret[c].kind # "conn") => Owned(c) = {} /\ conn[c] = 0
        /\ \A i \in 1..Len(trace[c]) :
               trace[c][i].op \notin {"connect", "sleep"} => trace[c][i].n \in Owned(c)
        /\ \A d \in Callers \ {c} : conn[c] # 0 => conn[c] # conn[d]
        /\ Done(c) => \A id \in Owned(c) : ~conns[id].open /\ conns[id].closes = 1
    /\ \A id \in 1..Len(conns) :
        /\ conns[id].closes <= 1
        /\ conns[id].open =>
               /\ ~Done(conns[id].owner)
               /\ ret[conns[id].owner] = ConnVal(id)
               /\ conns[id].closes = 0

C8_Witness ==
    \E c, d \in Callers :
        /\ c # d
        /\ pc[c] = "eq_fetch" /\ pc[d] = "eq_fetch"
        /\ conn[c] # conn[d]
        /\ conns[conn[c]].open /\ conns[conn[d]].open

SslCount(url) == Count(url, "sslmode=")

\* C9: every connect attempt, retries included, is given the configured string
\* unmodified when it contains sslmode=, and the configured string with one
\* sslmode=require parameter appended when it does not; so the string passed
\* contains sslmode= exactly once whenever the configured one contains it at
\* most once
C9_SslmodeOnce ==
    \A c \in Callers :
        \A i \in 1..Len(Connects(c)) :
            LET dsn == Connects(c)[i].dsn
                url == config.DATABASE_URL
            IN  /\ SslCount(url) > 0 => dsn = url
                /\ SslCount(url) = 0 =>
                       /\ Len(dsn) = Len(url) + 3
                       /\ SubSeq(dsn, 1, Len(url)) = url
                       /\ SubSeq(dsn, Len(url) + 2, Len(dsn)) = <<"sslmode=", "require">>
                       /\ dsn[Len(url) + 1] \in {"?", "&"}
                       /\ dsn[Len(url) + 1] = "&" <=> Contains(url, "?")
                /\ SslCount(url) <= 1 => SslCount(dsn) = 1

C9_Witness ==
    \E c \in Callers :
        /\ Len(Connects(c)) = 3
        /\ SslCount(config.DATABASE_URL) = 0
        /\ Contains(config.DATABASE_URL, "?")
        /\ SslCount(Connects(c)[3].dsn) = 1

\* C10 as stated: for a configured connection string containing '@', no
\* diagnostic line contains what precedes its last '@'
C10_NoCredentialInOutput ==
    \A c \in Callers :
        \A i \in 1..Len(out[c]) :
            Contains(config.DATABASE_URL, "@") =>
                ~IsSubstring(BeforeLast(config.DATABASE_URL, "@"), out[c][i].text)

\* the line of the configuration check
NotSetLine == Line(Tag, "ERROR: DATABASE_URL is not set!", <<>>, <<>>)

\* C11: with the configuration unset, execute_query makes no driver call at
\* all (no connect, cursor, execute, fetch or close) and no sleep, prints the
\* configuration-check error line and nothing else, and returns None
C11_UnsetQuery ==
    \A c \in Callers :
        (IsQuery(c) /\ Unconfigured) =>
            /\ trace[c] = <<>>
            /\ conns = <<>>
            /\ out[c] \in {<<>>, <<NotSetLine>>}
            /\ GdcFinished(c) => out[c] = <<NotSetLine>>
            /\ Done(c) => result[c] = NoneVal

C11_Witness ==
    \E c \in Callers :
        /\ IsQuery(c) /\ ~config.present /\ dbRows[c] = 2
        /\ Done(c) /\ result[c] = NoneVal /\ out[c] = <<NotSetLine>>

RECURSIVE SumDelays(_)
\* seconds slept in the sleep events es
SumDelays(es) == IF es = <<>> THEN 0 ELSE es[1].n + SumDelays(Tail(es))

\* longest time caller c's get_db_connection has been blocked, each connect
\* attempt taking at most DB_CONNECT_TIMEOUT
Blocking(c) == Len(Connects(c)) * DB_CONNECT_TIMEOUT + SumDelays(Sleeps(c))

\* C12: a call get_db_connection(0) makes at most MAX_RETRIES + 1 = 4 connect
\* attempts and MAX_RETRIES = 3 sleeps, sleeps at most 35 seconds and is
\* blocked at most 120 * 4 + 35 = 515 seconds in all; and it returns
C12_Terminates ==
    /\ [](\A c \in Callers :
            arg[c] = 0 =>
                /\ Len(Connects(c)) <= MAX_RETRIES + 1
                /\ Len(Connects(c)) <= 4
                /\ Len(Sleeps(c)) <= MAX_RETRIES
                /\ Len(Sleeps(c)) <= 3
                /\ SumDelays(Sleeps(c)) <= 35
                /\ Blocking(c) <= DB_CONNECT_TIMEOUT * (1 + MAX_RETRIES) + 35
                /\ Blocking(c) <= 515)
    /\ <>(\A c \in Callers : (pc[c] # "idle" /\ arg[c] = 0) => GdcFinished(c))

C12_Witness ==
    \E c \in Callers :
        /\ arg[c] = 0 /\ GdcFinished(c)
        /\ Len(Connects(c)) = 4 /\ Len(Sleeps(c)) = 3
        /\ SumDelays(Sleeps(c)) = 35 /\ Blocking(c) = 515

\* C13 as stated: every diagnostic line of get_db_connection and execute_query
\* begins with the tag '[sql_utils]'
C13_AllTagged ==
    \A c \in Callers : \A i \in 1..Len(out[c]) : out[c][i].tag = Tag

\* positions in caller c's trace of the driver calls named op
At(c, op) == {i \in 1..Len(trace[c]) : trace[c][i].op = op}

\* C14: in execute_query a cursor that was opened is released once on every
\* exit path, before the connection's close(); execute and fetchall come after
\* the cursor is opened and never after its release or the connection's close
C14_CursorScoped ==
    \A c \in Callers :
        LET opened == {i \in At(c, "cursor") : trace[c][i].res = "ok"} IN
        /\ Cardinality(At(c, "cursor")) <= 1
        /\ Cardinality(At(c, "cursor.close")) <= Cardinality(opened)
        /\ (At(c, "close") # {} /\ opened # {}) => At(c, "cursor.close") # {}
        /\ (Done(c) /\ opened # {}) => Cardinality(At(c, "cursor.close")) = 1
        /\ \A i \in At(c, "cursor.close") :
               /\ \A j \in opened : j < i
               /\ \A j \in At(c, "close") : i < j
        /\ \A i \in At(c, "execute") \cup At(c, "fetchall") :
               /\ \E j \in opened : j < i
               /\ \A j \in At(c, "cursor.close") \cup At(c, "close") : i < j

C14_Witness ==
    \E c \in Callers :
        /\ Done(c)
        /\ \E i \in At(c, "execute") : trace[c][i].res = "error"
        /\ \E i \in At(c, "cursor.close"), j \in At(c, "close") : i < j

\* some attempt k <= MAX_RETRIES of caller c succeeded after k operational
\* failures
AttemptSucceeded(c) ==
    \E k \in 0..MAX_RETRIES :
        /\ k + 1 <= Len(Connects(c))
        /\ Connects(c)[k + 1].res = "ok"
        /\ \A j \in 1..k : Connects(c)[j].res = "OperationalError"

\* C15: get_db_connection(0) returns a connection exactly when some attempt
\* k <= MAX_RETRIES succeeds after k operational failures, which with a
\* connection string configured is when the database fails at most
\* MAX_RETRIES times and then connects; the connection returned is the one
\* that attempt opened, it is open, and the call opened no other
C15_ReturnsTheConnection ==
    \A c \in Callers :
        (arg[c] = 0 /\ GdcFinished(c)) =>
            /\ ret[c].kind \in {"conn", "None"}
            /\ ret[c].kind = "conn" <=> AttemptSucceeded(c)
            /\ ~Unconfigured =>
                   (ret[c].kind = "conn" <=>
                        (dbAfter[c] = "ok" /\ dbFails[c] <= MAX_RETRIES))
            /\ ret[c].kind = "conn" =>
                   /\ Owned(c) = {ret[c].conn}
                   /\ Connects(c)[Len(Connects(c))].res = "ok"
                   /\ conns[ret[c].conn].closes = 0 => conns[ret[c].conn].open
                   /\ ~IsQuery(c) => conns[ret[c].conn].open
            /\ ret[c].kind = "None" => Owned(c) = {}
            /\ (Done(c) /\ ~IsQuery(c)) => result[c] = ret[c]

C15_Witness ==
    \E c \in Callers :
        /\ arg[c] = 0 /\ kind[c] = "get_db_connection" /\ Done(c)
        /\ Len(Connects(c)) = 3
        /\ result[c].kind = "conn" /\ conns[result[c].conn].open

\* a step of caller c's query on its cursor failed
CursorStepFailed(c) ==
    \E i \in 1..Len(trace[c]) :
        /\ trace[c][i].op \in {"cursor", "execute", "fetchall", "cursor.close"}
        /\ trace[c][i].res = "error"

\* C16 as stated: execute_query returns None only when acquiring the
\* connection or running the query on its cursor failed; a query that succeeds
\* returns the sequence of its n rows, which for n = 0 is empty and not None
C16_RowsOrNone ==
    \A c \in Callers :
        (IsQuery(c) /\ Done(c)) =>
            /\ result[c] = NoneVal => (conn[c] = 0 \/ CursorStepFailed(c))
            /\ (conn[c] # 0 /\ ~CursorStepFailed(c)) =>
                   /\ result[c] = RowsVal(Rows(dbRows[c]))
                   /\ Len(result[c].rows) = dbRows[c]
                   /\ result[c] # NoneVal

\* C18: on its connection execute_query opens at most one cursor, executes
\* the query at most once, fetches at most once, in that order, and calls
\* close(); it never commits, so a finished call has left the connection
\* closed with the transaction the query began rolled back
C18_NoCommit ==
    /\ \A c \in Callers :
        /\ \A i \in 1..Len(trace[c]) :
               trace[c][i].op \in {"connect", "sleep", "cursor", "execute", "fetchall",
                                   "cursor.close", "close"}
        /\ \A op \in {"cursor", "execute", "fetchall", "cursor.close", "close"} :
               Cardinality(At(c, op)) <= 1
        /\ \A i \in At(c, "cursor"), j \in At(c, "execute") : i < j
        /\ \A i \in At(c, "execute"), j \in At(c, "fetchall") :
               i < j /\ trace[c][i].res = "ok"
        /\ \A i \in At(c, "connect") \cup At(c, "cursor") \cup At(c, "execute")
                    \cup At(c, "fetchall") :
               \A j \in At(c, "close") : i < j
        /\ (IsQuery(c) /\ Done(c)) =>
               \A id \in Owned(c) :
                   /\ ~conns[id].open
                   /\ conns[id].txn \in {"idle", "rolled back"}
                   /\ At(c, "execute") # {} => conns[id].txn = "rolled back"
    /\ \A id \in 1..Len(conns) : conns[id].txn # "committed"

C18_Witness ==
    \E c \in Callers :
        /\ IsQuery(c) /\ Done(c) /\ result[c].kind = "rows"
        /\ \E id \in Owned(c) : ~conns[id].open /\ conns[id].txn = "rolled back"

\* C17 as stated: the standalone run, whatever its execute_query call
\* returns (None, no rows, or rows keyed by column name), prints the success
\* report or the failure report and ends without an uncaught error
C17_MainReports ==
    \A c \in Callers :
        (kind[c] = "__main__" /\ pc[c] = "done" /\ result[c].kind \in {"None", "rows"}) =>
            /\ main[c].exit = "ok"
            /\ main[c].out[Len(main[c].out)].msg
                   \in {"Database version:", "Failed to connect or execute query."}

====
